---- MODULE Spec2Model ----
(***************************************************************************)
(* Authentication and session-trust subsystem of vidacure-server:          *)
(* the OIDC login / callback handlers, the identity resolver               *)
(* (findOrCreateUser over the Patient and Doctor collections), the         *)
(* application JWT codec and the Express middleware chain (requireAuth,    *)
(* auditMiddleware, requireCSRF, requireRole) in front of the routers.     *)
(*                                                                         *)
(* Two specifications share the variables:                                 *)
(*   Spec      the login handlers, run by NumProcs concurrent requests     *)
(*             against the two collections;                                *)
(*   SpecGate  one request at a time walking the middleware chain of the   *)
(*             route it addresses.                                         *)
(***************************************************************************)
EXTENDS Integers, Sequences, FiniteSets, TLC

VARIABLES
    patients,   \* the Patient collection: a set of documents
    doctors,    \* the Doctor collection: a set of documents
    nextId,     \* index of the next fresh ObjectId in IdPool
    appConfig,  \* auth-service.ts `appConfig`: "unset" until initializeAuth resolves
    now,        \* wall clock, in seconds
    procs,      \* the in-flight login requests, one record per request slot
    gate        \* the request walking the middleware chain (SpecGate)

vars == <<patients, doctors, nextId, appConfig, now, procs, gate>>

-----------------------------------------------------------------------------
(* Bounds *)

MaxTime == 1

-----------------------------------------------------------------------------
(* JavaScript values.  Every string-valued input is a TLA+ string; the     *)
(* absent value (undefined) is the sentinel Undefined.                     *)

Undefined == "<undefined>"

\* JavaScript truthiness of a string-or-undefined value: `!x` is true for
\* undefined and for the empty string.
Truthy(x) == x # Undefined /\ x # ""

\* a || b
OrElse(a, b) == IF Truthy(a) THEN a ELSE b

-----------------------------------------------------------------------------
(* National identity numbers.  An SSN is a sequence of characters.         *)

Digits == {"0", "1", "2", "3", "4", "5", "6", "7", "8", "9"}

SsnAnna  == <<"1","9","9","0","0","1","0","1","1","2","3","4">>
SsnBerit == <<"1","9","8","5","1","2","2","4","5","6","7","8">>
SsnShort == <<"9","0","0","1","0","1","1","2","3","4">>
SsnLong  == <<"1","9","9","0","0","1","0","1","1","2","3","4","5">>
SsnDash  == <<"1","9","9","0","0","1","0","1","-","1","2","3">>
SsnEmpty == <<>>
\* the `ssn` claim is missing from the identity token
SsnAbsent == <<"<undefined>">>

ValidSsns == {SsnAnna, SsnBerit}
BadSsns == {SsnShort, SsnLong, SsnDash, SsnEmpty, SsnAbsent}
Ssns == ValidSsns \cup BadSsns

\* a variant whose pattern lacks the length: /^\d+$/
isValidSwedishSSN_AnyLength(ssn) ==
    /\ Len(ssn) >= 1
    /\ \A i \in 1..Len(ssn) : ssn[i] \in Digits

\* /^\d{12}$/.test(ssn)
isValidSwedishSSN(ssn) ==
    /\ Len(ssn) = 12
    /\ \A i \in 1..Len(ssn) : ssn[i] \in Digits

\* !ssn || !isValidSwedishSSN(ssn)
SsnRejected(ssn) ==
    \/ ssn = SsnAbsent
    \/ ssn = SsnEmpty
    \/ ~isValidSwedishSSN(ssn)

SSN_HASH_SECRET == "ssn-hash-secret"

\* HMAC-SHA256 keyed with SSN_HASH_SECRET: a deterministic injection of
\* (key, message).
hashSSN(ssn) == <<"hmac-sha256", SSN_HASH_SECRET, ssn>>

-----------------------------------------------------------------------------
(* The two collections and Mongoose's save().                              *)

\* ObjectIds handed to newly inserted documents, in order.
IdPool == <<"oid-n1", "oid-n2">>

NoUser == [id |-> Undefined, ssnHash |-> hashSSN(SsnAbsent), role |-> Undefined,
           name |-> Undefined, given_name |-> Undefined, family_name |-> Undefined,
           height |-> Undefined, email |-> Undefined, lastLogin |-> 0]

\* Accounts that exist before the behaviour starts (earlier sign-ups and
\* doctors provisioned out of band).
PatientAnna == [id |-> "oid-p1", ssnHash |-> hashSSN(SsnAnna), role |-> "patient",
                name |-> "Anna Berg", given_name |-> "Anna", family_name |-> "Berg",
                height |-> "172", email |-> "anna@example.se", lastLogin |-> 0]

DoctorBerit == [id |-> "oid-d1", ssnHash |-> hashSSN(SsnBerit), role |-> "doctor",
                name |-> "Berit Ek", given_name |-> "Berit", family_name |-> "Ek",
                height |-> Undefined, email |-> "berit@example.se", lastLogin |-> 0]

\* a doctor provisioned for a person who had signed up as a patient before
DoctorAnna == [id |-> "oid-d2", ssnHash |-> hashSSN(SsnAnna), role |-> "doctor",
               name |-> "Anna Berg", given_name |-> "Anna", family_name |-> "Berg",
               height |-> Undefined, email |-> "anna@clinic.se", lastLogin |-> 0]

\* PatientSchema's validators, run by save(): the `required` paths (a
\* required string must be non-empty) and the role enum.
PatientSchemaValid(doc) ==
    /\ Truthy(doc.name)
    /\ Truthy(doc.given_name)
    /\ Truthy(doc.family_name)
    /\ doc.role \in {"patient"}
    /\ doc.height # Undefined

\* DoctorSchema's validators.
DoctorSchemaValid(doc) ==
    /\ Truthy(doc.name)
    /\ Truthy(doc.given_name)
    /\ Truthy(doc.family_name)
    /\ doc.role \in {"doctor"}
    /\ Truthy(doc.email)

\* The unique indexes of the Patient collection (ssnHash, email): would
\* inserting doc raise E11000?  A missing email is indexed as null, so two
\* documents without an email collide as well.
PatientDuplicateKey(doc, coll) ==
    \E d \in coll : d.ssnHash = doc.ssnHash \/ d.email = doc.email

\* a variant whose filter is empty (findOne({ ssnHash: undefined }))
FindBySsnHash_NoFilter(coll, h) == coll

\* Model.findOne({ ssnHash }): the documents the query may return.
FindBySsnHash(coll, h) == {d \in coll : d.ssnHash = h}

\* a variant whose save() writes nothing
UpdateLastLogin_NoWrite(coll, id, t) == coll

\* doc.save() of a loaded document whose lastLogin was modified:
\* updateOne({_id}, {$set: {lastLogin}}).
UpdateLastLogin(coll, id, t) ==
    {IF d.id = id THEN [d EXCEPT !.lastLogin = t] ELSE d : d \in coll}

-----------------------------------------------------------------------------
(* Application JWT (jsonwebtoken, HS256).                                  *)

JWT_SECRET == "jwt-secret"
OtherSecret == "not-the-jwt-secret"

\* Math.floor(TTL / 1000): the session lifetime in seconds.
TTLSeconds == 1

NoToken == [fmt |-> "absent", userId |-> "", role |-> "", iat |-> 0, exp |-> 0,
            key |-> ""]
EmptyToken == [NoToken EXCEPT !.fmt = "empty"]
GarbageToken == [NoToken EXCEPT !.fmt = "garbage"]

\* `!token`
TokenMissing(token) == token.fmt \in {"absent", "empty"}

\* user._id?.toString() || 'temp-id'
UserIdString(user) == IF Truthy(user.id) THEN user.id ELSE "temp-id"

\* a variant that always falls back to 'temp-id' (reads user.id, which a
\* Mongoose document lacks until toObject)
createAppJWT_TempId(user, t) ==
    [fmt |-> "jwt", userId |-> "temp-id", role |-> user.role,
     iat |-> t, exp |-> t + TTLSeconds, key |-> JWT_SECRET]

createAppJWT(user, t) ==
    [fmt |-> "jwt", userId |-> UserIdString(user), role |-> user.role,
     iat |-> t, exp |-> t + TTLSeconds, key |-> JWT_SECRET]

NoClaims == [userId |-> Undefined, role |-> Undefined]

\* a variant that checks the signature and never the expiry
verifyAppJWT_IgnoreExpiry(token, t) ==
    IF token.fmt = "jwt" /\ token.key = JWT_SECRET
    THEN [userId |-> token.userId, role |-> token.role]
    ELSE NoClaims

\* a variant that decodes without checking the signature (jwt.decode)
verifyAppJWT_DecodeOnly(token, t) ==
    IF token.fmt = "jwt" /\ t < token.exp
    THEN [userId |-> token.userId, role |-> token.role]
    ELSE NoClaims

\* jwt.verify(token, JWT_SECRET) inside try/catch: the decoded claims, or
\* null (NoClaims) when the token is malformed, signed with another key or
\* expired (jsonwebtoken rejects when clockTimestamp >= exp).
verifyAppJWT(token, t) ==
    IF token.fmt = "jwt" /\ token.key = JWT_SECRET /\ t < token.exp
    THEN [userId |-> token.userId, role |-> token.role]
    ELSE NoClaims

-----------------------------------------------------------------------------
(* Login requests (auth-controllers.ts).  A request slot holds one request  *)
(* from its arrival to its response; between two awaits a handler runs      *)
(* atomically (single-threaded event loop).                                 *)

Procs == {"r1", "r2"}

\* identity-token name claims the broker may deliver
FullNames == [name |-> "Anna Berg", given_name |-> "Anna", family_name |-> "Berg"]
NoNames == [name |-> Undefined, given_name |-> Undefined, family_name |-> Undefined]
NameClaims == {FullNames, NoNames}

StateValues == {"X", "Y"}
CsrfValues == {"c1", "c2"}

IdleProc ==
    [kind |-> "idle", pc |-> "idle",
     \* request
     reqState |-> Undefined, cookieState |-> Undefined, code |-> Undefined,
     error |-> Undefined, xclient |-> Undefined,
     \* handler locals and history
     exchanged |-> FALSE, resolver |-> "no", ssn |-> SsnAbsent,
     names |-> NoNames, user |-> NoUser, loginAt |-> 0, wrote |-> "no",
     isNewUser |-> FALSE, raced |-> FALSE,
     \* response
     status |-> 0, errmsg |-> Undefined, details |-> Undefined,
     message |-> Undefined, location |-> Undefined, acr |-> Undefined,
     setCookies |-> {}, clearedCookies |-> {}, oauthState |-> Undefined,
     appToken |-> NoToken, csrfToken |-> Undefined, bodyToken |-> NoToken]

\* res.status(code).json({error, details}) and return
Reject(r, code, err, det) ==
    [r EXCEPT !.pc = "done", !.status = code, !.errmsg = err, !.details = det]

\* getAppConfig(): throws unless initializeAuth has stored the configuration
AppConfigMissing == appConfig # "ready"

\* a variant that only requires the parameter to be present
InvalidState_PresenceOnly(state, storedState) == ~Truthy(state)

\* `!state || state !== storedState`
InvalidState(state, storedState) == ~Truthy(state) \/ state # storedState

\* template literal `${given_name} ${family_name}`.trim()
JsString(x) == IF x = Undefined THEN "undefined" ELSE x
TrimmedFullName(g, f) ==
    LET gs == JsString(g)
        fs == JsString(f)
    IN  IF gs = "" THEN fs ELSE IF fs = "" THEN gs ELSE gs \o " " \o fs

\* a variant that takes the role from the caller's claims instead of the
\* literal 'patient'
NewPatientDoc_RoleFromClaims(ssn, names, id, t) ==
    [id |-> id, ssnHash |-> hashSSN(ssn),
     role |-> IF ssn = SsnBerit THEN "doctor" ELSE "patient",
     name |-> OrElse(names.name,
                     OrElse(TrimmedFullName(names.given_name, names.family_name),
                            "Unknown User")),
     given_name |-> OrElse(names.given_name, ""),
     family_name |-> OrElse(names.family_name, ""),
     height |-> Undefined, email |-> Undefined, lastLogin |-> t]

\* new Patient({...}) in findOrCreateUser, with the _id the insert will store
NewPatientDoc(ssn, names, id, t) ==
    [id |-> id, ssnHash |-> hashSSN(ssn), role |-> "patient",
     name |-> OrElse(names.name,
                     OrElse(TrimmedFullName(names.given_name, names.family_name),
                            "Unknown User")),
     given_name |-> OrElse(names.given_name, ""),
     family_name |-> OrElse(names.family_name, ""),
     height |-> Undefined, email |-> Undefined, lastLogin |-> t]

\* the catch blocks: findOrCreateUser's (rethrow with a prefixed message) and
\* the controller's (500 with error.message as details)
Fail500(r, msg) ==
    Reject(r, 500, "Authentication failed", msg)

ResolverThrew(r, msg) ==
    Fail500([r EXCEPT !.resolver = "threw"], "Failed to authenticate user: " \o msg)

\* handleCallback after findOrCreateUser returned: createAppJWT, the two
\* cookies, redirect to the frontend
CallbackSuccess(r, user, isNew, csrf) ==
    [r EXCEPT !.pc = "done", !.resolver = "returned", !.user = user,
              !.isNewUser = isNew, !.status = 302,
              !.appToken = createAppJWT(user, now),
              !.csrfToken = csrf,
              !.setCookies = @ \cup {"app_token", "csrf_token"},
              !.location = "frontend?auth=success",
              !.message = IF isNew THEN "Welcome! Account created successfully."
                                   ELSE "Login successful!"]

\* setLogin after findOrCreateUser returned: the token in the JSON body
SetLoginSuccess(r, user, isNew) ==
    [r EXCEPT !.pc = "done", !.resolver = "returned", !.user = user,
              !.isNewUser = isNew, !.status = 200,
              !.bodyToken = createAppJWT(user, now),
              !.message = IF isNew THEN "Account created successfully"
                                   ELSE "Authentication successful"]

\* the controller's continuation once the resolver has returned
Succeed(r, user, isNew, csrf) ==
    IF r.kind = "callback" THEN CallbackSuccess(r, user, isNew, csrf)
    ELSE SetLoginSuccess(r, user, isNew)

\* findOrCreateUser up to its first await: the SSN check, then
\* Patient.findOne is issued
ResolverEnter(r, ssn, names) ==
    LET r1 == [r EXCEPT !.ssn = ssn, !.names = names, !.resolver = "called"]
    IN  IF SsnRejected(ssn)
        THEN Fail500([r1 EXCEPT !.resolver = "threw"], "Invalid or missing SSN from IdP")
        ELSE [r1 EXCEPT !.pc = "findPatient"]

-----------------------------------------------------------------------------
(* Client-type detection (auth-middleware.ts, browserDetails).             *)

\* A user-agent header is the sequence of its product words; <<>> is the
\* missing header (`|| ""`).
UaDesktop == <<"Mozilla/5.0", "Windows NT 10.0", "Chrome/120">>
UaIphone == <<"Mozilla/5.0", "iPhone", "Safari/604">>
UaAndroidLower == <<"okhttp/4.9", "android">>
UaAbsent == <<>>
UserAgents == {UaDesktop, UaIphone, UaAndroidLower, UaAbsent}

\* the alternatives of /Android|webOS|iPhone|iPad|iPod|BlackBerry|IEMobile|Opera Mini/i,
\* lower-cased
MobileTokens == {"android", "webos", "iphone", "ipad", "ipod", "blackberry",
                 "iemobile", "opera mini"}

\* case folding of the words that occur in UserAgents
LowerCase(w) ==
    CASE w = "iPhone" -> "iphone"
      [] w = "Mozilla/5.0" -> "mozilla/5.0"
      [] w = "Windows NT 10.0" -> "windows nt 10.0"
      [] w = "Chrome/120" -> "chrome/120"
      [] w = "Safari/604" -> "safari/604"
      [] OTHER -> w

IsMobileUA(ua) == \E i \in 1..Len(ua) : LowerCase(ua[i]) \in MobileTokens

XClientValues == {Undefined, "web", "mobile", "app", "desktop"}

\* a variant whose pattern lacks the /i flag
browserDetails_CaseSensitive(xclient, ua) ==
    IF xclient = "web" THEN "web"
    ELSE IF xclient = "mobile" THEN "mobile"
    ELSE IF xclient = "app" THEN "app"
    ELSE IF \E i \in 1..Len(ua) :
               ua[i] \in {"Android", "webOS", "iPhone", "iPad", "iPod",
                          "BlackBerry", "IEMobile", "Opera Mini"}
    THEN "mobile"
    ELSE "web"

browserDetails(xclient, ua) ==
    IF xclient = "web" THEN "web"
    ELSE IF xclient = "mobile" THEN "mobile"
    ELSE IF xclient = "app" THEN "app"
    ELSE IF IsMobileUA(ua) THEN "mobile"
    ELSE "web"

\* the switch of initiateLogin
AcrValues(clientType) ==
    CASE clientType = "web" -> "urn:grn:authn:se:bankid:same-device"
      [] clientType = "mobile" -> "urn:grn:authn:se:bankid:same-device"
      [] clientType = "app" -> "urn:grn:authn:se:bankid"
      [] OTHER -> "urn:grn:authn:se:bankid:another-device:qr"

\* The broker identity token presented to POST /login.
NoIdToken == [fmt |-> "absent", signer |-> Undefined, ssn |-> SsnAbsent,
              names |-> NoNames]
IdTokens ==
    {[fmt |-> "jwt", signer |-> sg, ssn |-> ssn, names |-> nm] :
        sg \in {"broker", "forged"}, ssn \in Ssns, nm \in NameClaims}
    \cup {[NoIdToken EXCEPT !.fmt = f] : f \in {"absent", "empty", "garbage"}}

\* An Authorization header: scheme Undefined is the missing header; a
\* credential of fmt "absent" is a header without a second word.
AuthHeaders ==
    {[scheme |-> sc, cred |-> c] : sc \in {"Bearer", "Basic"}, c \in IdTokens}
    \cup {[scheme |-> Undefined, cred |-> NoIdToken]}

\* authHeader.startsWith("Bearer ")
StartsWithBearer(h) == h.scheme = "Bearer" /\ h.cred.fmt # "absent"

\* CriiptoVerifyExpressJwt.middleware() in front of setLogin: lets a request
\* through only with a bearer token the broker signed
ExpressJwtAccepts(h) ==
    /\ StartsWithBearer(h)
    /\ h.cred.fmt = "jwt"
    /\ h.cred.signer = "broker"

-----------------------------------------------------------------------------
(* Handlers *)

SetProc(p, r) == procs' = [procs EXCEPT ![p] = r]

StoresUnchanged == UNCHANGED <<patients, doctors, nextId>>

\* server.ts: initializeAuth().then(...) -- configManager.fetch() resolved
InitializeAuthOk ==
    /\ appConfig = "unset"
    /\ appConfig' = "ready"
    /\ UNCHANGED <<patients, doctors, nextId, now, procs, gate>>

\* server.ts: initializeAuth().catch(...) -- missing environment or a failed
\* fetch; the server keeps running with appConfig undefined
InitializeAuthFails ==
    /\ appConfig = "unset"
    /\ appConfig' = "failed"
    /\ UNCHANGED <<patients, doctors, nextId, now, procs, gate>>

Tick ==
    /\ now < MaxTime
    /\ now' = now + 1
    /\ UNCHANGED <<patients, doctors, nextId, appConfig, procs, gate>>

\* a variant that looks at `code` before `error`
CallbackEntry_CodeFirst(r, state, storedState, code, error) ==
    LET r1 == [r EXCEPT !.kind = "callback"]
        r2 == [r1 EXCEPT !.reqState = state, !.cookieState = storedState,
                         !.code = code, !.error = error]
        r3 == [r2 EXCEPT !.clearedCookies = @ \cup {"oauth_state"}]
    IN  IF AppConfigMissing
        THEN Reject(r1, 503, "Authentication service not available", Undefined)
        ELSE IF InvalidState(state, storedState)
        THEN Reject(r2, 400, "Invalid state parameter", Undefined)
        ELSE IF ~Truthy(code)
        THEN Reject(r3, 400, "No authorization code received", Undefined)
        ELSE IF Truthy(error)
        THEN Reject(r3, 400, "Authentication failed", error)
        ELSE [r3 EXCEPT !.pc = "exchange", !.exchanged = TRUE]

\* handleCallback from its entry to the codeExchange call (its first await)
CallbackEntry(r, state, storedState, code, error) ==
    LET r1 == [r EXCEPT !.kind = "callback"]
        r2 == [r1 EXCEPT !.reqState = state, !.cookieState = storedState,
                         !.code = code, !.error = error]
        r3 == [r2 EXCEPT !.clearedCookies = @ \cup {"oauth_state"}]
    IN  IF AppConfigMissing
        THEN Reject(r1, 503, "Authentication service not available", Undefined)
        ELSE IF InvalidState(state, storedState)
        THEN Reject(r2, 400, "Invalid state parameter", Undefined)
        ELSE IF Truthy(error)
        THEN Reject(r3, 400, "Authentication failed", error)
        ELSE IF ~Truthy(code)
        THEN Reject(r3, 400, "No authorization code received", Undefined)
        ELSE [r3 EXCEPT !.pc = "exchange", !.exchanged = TRUE]

CallbackStart(p) ==
    /\ procs[p].pc = "idle"
    /\ \E qState \in {Undefined, "", "X", "Y"}, bState \in {Undefined, "X"},
          storedState \in {Undefined, "X"},
          qCode \in {Undefined, "abc"}, bCode \in {Undefined, "abc"},
          qError \in {Undefined, "access_denied"} :
          SetProc(p, CallbackEntry(procs[p], OrElse(qState, bState), storedState,
                                   OrElse(qCode, bCode), qError))
    /\ StoresUnchanged
    /\ UNCHANGED <<appConfig, now, gate>>

\* codeExchange settles: it rejects, it resolves to an ErrorResponse, or it
\* resolves to tokens whose id_token jwt.decode turns into claims (null for
\* an undecodable id_token)
ExchangeReturn(p) ==
    /\ procs[p].pc = "exchange"
    /\ \/ SetProc(p, Fail500(procs[p], "codeExchange rejected"))
       \/ SetProc(p, Reject(procs[p], 400, "Token exchange failed", "invalid_grant"))
       \/ SetProc(p, Fail500(procs[p], "Cannot destructure property 'ssn' of null"))
       \/ \E ssn \in Ssns, names \in NameClaims :
             SetProc(p, ResolverEnter(procs[p], ssn, names))
    /\ StoresUnchanged
    /\ UNCHANGED <<appConfig, now, gate>>

\* `await Patient.findOne({ ssnHash })` settles
PatientFindOne(p) ==
    LET r == procs[p]
        found == FindBySsnHash(patients, hashSSN(r.ssn))
    IN  /\ r.pc = "findPatient"
        /\ \/ SetProc(p, ResolverThrew(r, "Patient.findOne failed"))
           \/ /\ found # {}
              /\ \E d \in found :
                    SetProc(p, [r EXCEPT !.pc = "savePatient", !.user = d,
                                         !.loginAt = now])
           \/ /\ found = {}
              /\ SetProc(p, [r EXCEPT !.pc = "findDoctor"])
        /\ StoresUnchanged
        /\ UNCHANGED <<appConfig, now, gate>>

\* a variant whose catch block swallows the rejected save()
AfterExistingSave_Swallow(r, ok, csrf) ==
    Succeed([r EXCEPT !.wrote = IF ok THEN "ok" ELSE "failed"],
            [r.user EXCEPT !.lastLogin = r.loginAt], FALSE, csrf)

\* what follows a settled save() of a found account: the write went through
\* (ok) and the resolver returns the account, or save() rejected and the
\* catch block rethrows
AfterExistingSave(r, ok, csrf) ==
    IF ok
    THEN Succeed([r EXCEPT !.wrote = "ok"], [r.user EXCEPT !.lastLogin = r.loginAt],
                 FALSE, csrf)
    ELSE ResolverThrew([r EXCEPT !.wrote = "failed"], "save failed")

\* `await existingPatient.save()` settles
ExistingPatientSave(p) ==
    LET r == procs[p]
    IN  /\ r.pc = "savePatient"
        /\ \E dbOk \in BOOLEAN, csrf \in CsrfValues :
              LET ok == dbOk /\ PatientSchemaValid(r.user)
              IN  /\ patients' = IF ok
                                 THEN UpdateLastLogin(patients, r.user.id, r.loginAt)
                                 ELSE patients
                  /\ SetProc(p, AfterExistingSave(r, ok, csrf))
        /\ UNCHANGED <<doctors, nextId, appConfig, now, gate>>

\* `await Doctor.findOne({ ssnHash })` settles; when nobody is found the new
\* Patient document is built and its save() issued
DoctorFindOne(p) ==
    LET r == procs[p]
        found == FindBySsnHash(doctors, hashSSN(r.ssn))
    IN  /\ r.pc = "findDoctor"
        /\ \/ SetProc(p, ResolverThrew(r, "Doctor.findOne failed"))
           \/ /\ found # {}
              /\ \E d \in found :
                    SetProc(p, [r EXCEPT !.pc = "saveDoctor", !.user = d,
                                         !.loginAt = now])
           \/ /\ found = {}
              /\ SetProc(p, [r EXCEPT !.pc = "insertPatient", !.loginAt = now])
        /\ StoresUnchanged
        /\ UNCHANGED <<appConfig, now, gate>>

\* `await existingDoctor.save()` settles
ExistingDoctorSave(p) ==
    LET r == procs[p]
    IN  /\ r.pc = "saveDoctor"
        /\ \E dbOk \in BOOLEAN, csrf \in CsrfValues :
              LET ok == dbOk /\ DoctorSchemaValid(r.user)
              IN  /\ doctors' = IF ok
                                THEN UpdateLastLogin(doctors, r.user.id, r.loginAt)
                                ELSE doctors
                  /\ SetProc(p, AfterExistingSave(r, ok, csrf))
        /\ UNCHANGED <<patients, nextId, appConfig, now, gate>>

\* the outcome of newPatient.save(): Mongoose validates the document, then
\* insertOne runs against the unique indexes
InsertOutcome(doc, coll, dbOk) ==
    IF ~PatientSchemaValid(doc) THEN "ValidationError"
    ELSE IF ~dbOk THEN "NetworkError"
    ELSE IF PatientDuplicateKey(doc, coll) THEN "E11000 duplicate key"
    ELSE "ok"

\* what follows a settled newPatient.save()
AfterInsert(r, outcome, doc, csrf) ==
    IF outcome = "ok"
    THEN Succeed([r EXCEPT !.wrote = "ok"], doc, TRUE, csrf)
    ELSE ResolverThrew([r EXCEPT !.wrote = "failed"], outcome)

\* Another request is inside findOrCreateUser for the same SSN, past its
\* Patient.findOne and before its insert has settled.
RacingInsert(p) ==
    \E q \in Procs \ {p} :
        /\ procs[q].ssn = procs[p].ssn
        /\ procs[q].pc \in {"findDoctor", "insertPatient"}

\* `await newPatient.save()` settles
NewPatientSave(p) ==
    LET r == [procs[p] EXCEPT !.raced = RacingInsert(p)]
    IN  /\ r.pc = "insertPatient"
        /\ nextId <= Len(IdPool)
        /\ \E dbOk \in BOOLEAN, csrf \in CsrfValues :
              LET doc == NewPatientDoc(r.ssn, r.names, IdPool[nextId], r.loginAt)
                  outcome == InsertOutcome(doc, patients, dbOk)
              IN  /\ patients' = IF outcome = "ok" THEN patients \cup {doc}
                                 ELSE patients
                  /\ nextId' = IF outcome = "ok" THEN nextId + 1 ELSE nextId
                  /\ SetProc(p, AfterInsert(r, outcome, doc, csrf))
        /\ UNCHANGED <<doctors, appConfig, now, gate>>

\* a variant of setLogin without the client-type check
SetLoginEntry_AnyClient(r, xclient, h) ==
    LET r1 == [r EXCEPT !.kind = "setLogin", !.xclient = xclient]
    IN  IF ~ExpressJwtAccepts(h)
        THEN Reject(r1, 401, "Unauthorized", Undefined)
        ELSE IF AppConfigMissing
        THEN Reject(r1, 503, "Authentication service not available", Undefined)
        ELSE ResolverEnter(r1, h.cred.ssn, h.cred.names)

\* POST /login: expressJwt.middleware(), then setLogin up to its first await
SetLoginEntry(r, xclient, h) ==
    LET r1 == [r EXCEPT !.kind = "setLogin", !.xclient = xclient]
    IN  IF ~ExpressJwtAccepts(h)
        THEN Reject(r1, 401, "Unauthorized", Undefined)
        ELSE IF AppConfigMissing
        THEN Reject(r1, 503, "Authentication service not available", Undefined)
        ELSE IF xclient # "app"
        THEN Reject(r1, 400, "Invalid client type", Undefined)
        ELSE IF ~StartsWithBearer(h)
        THEN Reject(r1, 401, "Missing authorization header", Undefined)
        ELSE IF h.cred.fmt = "empty"
        THEN Reject(r1, 401, "Invalid token format", Undefined)
        ELSE IF h.cred.fmt # "jwt"
        THEN Reject(r1, 401, "Invalid token", Undefined)
        ELSE ResolverEnter(r1, h.cred.ssn, h.cred.names)

SetLoginStart(p) ==
    /\ procs[p].pc = "idle"
    /\ \E xclient \in XClientValues, h \in AuthHeaders :
          SetProc(p, SetLoginEntry(procs[p], xclient, h))
    /\ StoresUnchanged
    /\ UNCHANGED <<appConfig, now, gate>>

\* a variant that sets the oauth_state cookie before it builds the URL
InitiateEntry_CookieFirst(r, xclient, ua, state) ==
    LET r1 == [r EXCEPT !.kind = "initiate", !.xclient = xclient,
                        !.oauthState = state,
                        !.setCookies = @ \cup {"oauth_state"}]
        clientType == browserDetails(xclient, ua)
    IN  IF AppConfigMissing
        THEN Reject(r1, 503, "Authentication service not available", Undefined)
        ELSE [r1 EXCEPT !.pc = "done", !.status = 302,
                        !.acr = AcrValues(clientType),
                        !.location = "broker/authorize"]

\* GET /login
InitiateEntry(r, xclient, ua, state) ==
    LET r1 == [r EXCEPT !.kind = "initiate", !.xclient = xclient]
        clientType == browserDetails(xclient, ua)
    IN  IF AppConfigMissing
        THEN Reject(r1, 503, "Authentication service not available", Undefined)
        ELSE [r1 EXCEPT !.pc = "done", !.status = 302,
                        !.acr = AcrValues(clientType),
                        !.oauthState = state,
                        !.setCookies = @ \cup {"oauth_state"},
                        !.location = "broker/authorize"]

InitiateLogin(p) ==
    /\ procs[p].pc = "idle"
    /\ \E xclient \in XClientValues, ua \in UserAgents, state \in StateValues :
          SetProc(p, InitiateEntry(procs[p], xclient, ua, state))
    /\ StoresUnchanged
    /\ UNCHANGED <<appConfig, now, gate>>

\* a variant that clears the session cookie only
LogoutEntry_SessionOnly(r) ==
    [r EXCEPT !.kind = "logout", !.pc = "done", !.status = 200,
              !.message = "Logged out successfully",
              !.clearedCookies = @ \cup {"app_token"}]

\* POST /logout
LogoutEntry(r) ==
    [r EXCEPT !.kind = "logout", !.pc = "done", !.status = 200,
              !.message = "Logged out successfully",
              !.clearedCookies = @ \cup {"app_token", "csrf_token"}]

Logout(p) ==
    /\ procs[p].pc = "idle"
    /\ SetProc(p, LogoutEntry(procs[p]))
    /\ StoresUnchanged
    /\ UNCHANGED <<appConfig, now, gate>>

-----------------------------------------------------------------------------
(* The access gate: the middleware chains of server.ts and the routers.    *)

\* The routes, each with the middleware Express runs in front of its
\* handler, in order: those of its app.use mount, then those of the route.
Routes ==
    {[path |-> "/api/me", method |-> "GET",
      chain |-> <<"requireAuth", "getCurrentUser">>],
     [path |-> "/api/patient/questionnaire", method |-> "POST",
      chain |-> <<"requireAuth", "auditMiddleware", "requireCSRF",
                  "requireRole:patient", "handler">>],
     [path |-> "/api/doctor/prescription-requests/:requestId/status", method |-> "PUT",
      chain |-> <<"requireAuth", "auditMiddleware", "requireCSRF",
                  "requireRole:doctor", "handler">>],
     [path |-> "/api/chat/initialize", method |-> "POST",
      chain |-> <<"requireAuth", "auditMiddleware", "requireAuth", "handler">>],
     [path |-> "/api/chat/patient/channel", method |-> "GET",
      chain |-> <<"requireAuth", "auditMiddleware", "requireAuth",
                  "requireRole:patient", "handler">>],
     [path |-> "/api/calendly/patient-booking", method |-> "POST",
      chain |-> <<"requireAuth", "auditMiddleware", "requireCSRF", "handler">>],
     [path |-> "/api/payment/create-payment-intent", method |-> "POST",
      chain |-> <<"requireAuth", "requireCSRF", "handler">>]}

NoRoute == [path |-> Undefined, method |-> Undefined, chain |-> <<>>]

StateMutating(route) == route.method \in {"POST", "PUT", "PATCH", "DELETE"}

\* credentials a client may present
PatientToken == [fmt |-> "jwt", userId |-> "oid-p1", role |-> "patient",
                 iat |-> 0, exp |-> TTLSeconds, key |-> JWT_SECRET]
DoctorToken == [PatientToken EXCEPT !.userId = "oid-d1", !.role = "doctor"]
ForgedToken == [PatientToken EXCEPT !.key = OtherSecret]
GateTokens == {NoToken, EmptyToken, GarbageToken, PatientToken, DoctorToken,
               ForgedToken}

\* Authorization headers of protected requests: "Bearer <token>",
\* "Bearer" alone (cred NoToken), "Basic <token>", or no header at all
\* (scheme Undefined).
GateAuthHeaders ==
    {[scheme |-> "Bearer", cred |-> c] : c \in GateTokens}
    \cup {[scheme |-> "Basic", cred |-> PatientToken],
          [scheme |-> Undefined, cred |-> NoToken]}

\* req.headers["authorization"]?.split(" ")[1]
SecondWord(h) == IF h.scheme = Undefined THEN NoToken ELSE h.cred

\* a variant that falls back to the other transport when the selected one
\* carries nothing
TokenForClient_AnyTransport(clientType, h, cookieToken) ==
    IF clientType = "app"
    THEN (IF TokenMissing(SecondWord(h)) THEN cookieToken ELSE SecondWord(h))
    ELSE (IF TokenMissing(cookieToken) THEN SecondWord(h) ELSE cookieToken)

\* requireAuth: the credential, read from the transport of the client type
TokenForClient(clientType, h, cookieToken) ==
    IF clientType = "app" THEN SecondWord(h) ELSE cookieToken

IdleGate ==
    [pc |-> "idle", stage |-> 0, route |-> NoRoute,
     xclient |-> Undefined, ua |-> UaAbsent,
     auth |-> [scheme |-> Undefined, cred |-> NoToken], cookieToken |-> NoToken,
     csrfHeader |-> Undefined, csrfCookie |-> Undefined,
     user |-> NoClaims, auditLogger |-> FALSE,
     sent |-> <<>>, handlerRan |-> FALSE, csrfChecked |-> FALSE,
     authAt |-> <<>>]

\* the middleware or handler Express is about to invoke
Current == IF gate.pc = "run" THEN gate.route.chain[gate.stage] ELSE "none"

\* next(): on to the following function of the chain
CallNext(g) == [g EXCEPT !.stage = @ + 1]

\* res.status(code).json(body): the response is recorded; the first one
\* recorded is the one the client receives
Send(g, code, body) == [g EXCEPT !.sent = Append(@, [status |-> code, body |-> body])]

\* return without next(): the chain stops here
Stop(g) == [g EXCEPT !.pc = "done"]

GateUnchanged == UNCHANGED <<patients, doctors, nextId, appConfig, now, procs>>

NewRequest ==
    /\ gate.pc = "idle"
    /\ \E route \in Routes, xclient \in XClientValues,
          ua \in UserAgents, h \in GateAuthHeaders,
          ck \in GateTokens \ {EmptyToken},
          csrfH \in {Undefined, "", "c1", "c2"}, csrfC \in {Undefined, "c1"} :
          gate' = [IdleGate EXCEPT !.pc = "run", !.stage = 1, !.route = route,
                                   !.xclient = xclient, !.ua = ua, !.auth = h,
                                   !.cookieToken = ck, !.csrfHeader = csrfH,
                                   !.csrfCookie = csrfC]
    /\ GateUnchanged

\* requireAuth(req, res, next)
requireAuth(g) ==
    LET clientType == browserDetails(g.xclient, g.ua)
        token == TokenForClient(clientType, g.auth, g.cookieToken)
        decoded == verifyAppJWT(token, now)
        g1 == [g EXCEPT !.authAt = Append(@, now)]
    IN  IF TokenMissing(token)
        THEN Stop(Send(g1, 401, "Not authenticated"))
        ELSE IF decoded = NoClaims
        THEN Stop(Send(g1, 401, "Invalid or expired token"))
        ELSE CallNext([g1 EXCEPT !.user = decoded])

RequireAuth ==
    /\ Current = "requireAuth"
    /\ gate' = requireAuth(gate)
    /\ GateUnchanged

\* auditMiddleware(req, res, next)
AuditMiddleware ==
    /\ Current = "auditMiddleware"
    /\ gate' = CallNext([gate EXCEPT !.auditLogger = (gate.user # NoClaims)])
    /\ GateUnchanged

\* a variant without the native-app exemption
requireCSRF_NoExemption(g) ==
    LET clientToken == g.csrfHeader
        csrf == g.csrfCookie
        g1 == [g EXCEPT !.csrfChecked = TRUE]
    IN  IF ~Truthy(clientToken)
        THEN Stop(Send(g1, 403, "Missing CSRF token"))
        ELSE IF clientToken # csrf
        THEN CallNext(Send(g1, 401, "Wrong CSRF token"))
        ELSE CallNext(g1)

\* a variant that exempts every request carrying a Bearer header instead of
\* asking browserDetails
requireCSRF_ExemptOnBearer(g) ==
    LET clientToken == g.csrfHeader
        csrf == g.csrfCookie
        g1 == [g EXCEPT !.csrfChecked = TRUE]
    IN  IF g.auth.scheme = "Bearer"
        THEN CallNext(g1)
        ELSE IF ~Truthy(clientToken)
        THEN Stop(Send(g1, 403, "Missing CSRF token"))
        ELSE IF clientToken # csrf
        THEN CallNext(Send(g1, 401, "Wrong CSRF token"))
        ELSE CallNext(g1)

\* requireCSRF(req, res, next)
requireCSRF(g) ==
    LET clientToken == g.csrfHeader
        csrf == g.csrfCookie
        clientType == browserDetails(g.xclient, g.ua)
        g1 == [g EXCEPT !.csrfChecked = TRUE]
    IN  IF clientType = "app"
        THEN CallNext(g1)
        ELSE IF ~Truthy(clientToken)
        THEN Stop(Send(g1, 403, "Missing CSRF token"))
        ELSE IF clientToken # csrf
        THEN CallNext(Send(g1, 401, "Wrong CSRF token"))
        ELSE CallNext(g1)

RequireCSRF ==
    /\ Current = "requireCSRF"
    /\ gate' = requireCSRF(gate)
    /\ GateUnchanged

\* a variant that lets every authenticated user through
requireRole_AnyRole(g, allowedRoles) ==
    IF ~Truthy(g.user.role)
    THEN Stop(Send(g, 403, "Insufficient permissions"))
    ELSE CallNext(g)

\* requireRole(allowedRoles)(req, res, next)
requireRole(g, allowedRoles) ==
    IF ~(allowedRoles = g.user.role)
    THEN Stop(Send(g, 403, "Insufficient permissions"))
    ELSE CallNext(g)

RequireRole ==
    /\ \E role \in {"patient", "doctor"} :
          /\ Current = "requireRole:" \o role
          /\ gate' = requireRole(gate, role)
    /\ GateUnchanged

\* a controller behind the gate: it runs and answers
Handler ==
    /\ Current = "handler"
    /\ gate' = Stop(Send([gate EXCEPT !.handlerRan = TRUE], 200, "ok"))
    /\ GateUnchanged

\* Model.findById(userId) over both collections
FindById(id) == {d \in patients \cup doctors : d.id = id}

\* getCurrentUser(req, res)
GetCurrentUser ==
    /\ Current = "getCurrentUser"
    /\ gate' = IF FindById(gate.user.userId) = {}
               THEN Stop(Send([gate EXCEPT !.handlerRan = TRUE], 401,
                              "authenticated: false"))
               ELSE Stop(Send([gate EXCEPT !.handlerRan = TRUE], 200,
                              "authenticated: true"))
    /\ GateUnchanged

-----------------------------------------------------------------------------
(* Specification of the login handlers *)

Init ==
    /\ patients \in SUBSET {PatientAnna}
    /\ doctors \in SUBSET {DoctorBerit, DoctorAnna}
    /\ nextId = 1
    /\ appConfig = "unset"
    /\ now = 0
    /\ procs = [p \in Procs |-> IdleProc]
    /\ gate = IdleGate

Next ==
    \/ InitializeAuthOk
    \/ InitializeAuthFails
    \/ Tick
    \/ \E p \in Procs : CallbackStart(p)
    \/ \E p \in Procs : ExchangeReturn(p)
    \/ \E p \in Procs : SetLoginStart(p)
    \/ \E p \in Procs : InitiateLogin(p)
    \/ \E p \in Procs : Logout(p)
    \/ \E p \in Procs : PatientFindOne(p)
    \/ \E p \in Procs : ExistingPatientSave(p)
    \/ \E p \in Procs : DoctorFindOne(p)
    \/ \E p \in Procs : ExistingDoctorSave(p)
    \/ \E p \in Procs : NewPatientSave(p)

Spec == Init /\ [][Next]_vars

-----------------------------------------------------------------------------
(* Specification of the access gate *)

InitGate ==
    /\ patients = {PatientAnna}
    /\ doctors \in SUBSET {DoctorBerit}
    /\ nextId = 1
    /\ appConfig = "ready"
    /\ now = 0
    /\ procs = [p \in Procs |-> IdleProc]
    /\ gate = IdleGate

NextGate ==
    \/ Tick
    \/ NewRequest
    \/ RequireAuth
    \/ AuditMiddleware
    \/ RequireCSRF
    \/ RequireRole
    \/ Handler
    \/ GetCurrentUser

SpecGate == InitGate /\ [][NextGate]_vars

-----------------------------------------------------------------------------
(* Specification of the access gate with a logout next to it *)

NextSession ==
    \/ NextGate
    \/ Logout("r1")

SpecSession == InitGate /\ [][NextSession]_vars

-----------------------------------------------------------------------------
(* Claims about the login handlers (checked under Spec)                    *)

\* the callback requests that got past the configuration guard and read
\* their parameters
CallbackPastConfig(r) == r.kind = "callback" /\ r.pc # "idle" /\ r.status # 503

NonceMismatch(r) == r.reqState \in {Undefined, ""} \/ r.reqState # r.cookieState

NothingIssued(r) ==
    /\ r.appToken = NoToken
    /\ r.bodyToken = NoToken
    /\ r.csrfToken = Undefined
    /\ r.setCookies \cap {"app_token", "csrf_token"} = {}

\* C1: a callback whose `state` is absent or differs from the oauth_state
\* cookie is answered 400 "Invalid state parameter"; in that request
\* codeExchange and findOrCreateUser are never called, no account is written
\* and no session or CSRF cookie is set; the token exchange is only ever
\* issued by a request whose nonce comparison succeeded.
C1_InvalidStateRejected ==
    \A p \in Procs :
        LET r == procs[p]
        IN  /\ (CallbackPastConfig(r) /\ NonceMismatch(r)) =>
                  /\ r.pc = "done"
                  /\ r.status = 400
                  /\ r.errmsg = "Invalid state parameter"
                  /\ ~r.exchanged
                  /\ r.resolver = "no"
                  /\ r.wrote = "no"
                  /\ NothingIssued(r)
            /\ (r.kind = "callback" /\ r.exchanged) =>
                  (r.reqState = r.cookieState /\ r.reqState \notin {Undefined, ""})

\* a mismatching nonce with an otherwise valid code has been rejected
C1_Witness ==
    \E p \in Procs :
        /\ procs[p].kind = "callback"
        /\ procs[p].reqState = "Y"
        /\ procs[p].cookieState = "X"
        /\ procs[p].code = "abc"
        /\ procs[p].status = 400

\* C2: every handleCallback execution that reaches the state-nonce check
\* clears the oauth_state cookie, on the success path and on the 400 path of
\* a missing or mismatched nonce alike.
C2_NonceCookieAlwaysCleared ==
    \A p \in Procs :
        (CallbackPastConfig(procs[p]) /\ procs[p].pc = "done")
            => "oauth_state" \in procs[p].clearedCookies

\* C7: a session credential is issued only after the resolver's write (the
\* insert or the lastLogin update) went through, for an account the store
\* holds; a request whose write failed ends with 500 and produces no
\* credential, session cookie or CSRF cookie.
C7_CredentialOnlyAfterWrite ==
    \A p \in Procs :
        LET r == procs[p]
            token == IF r.kind = "callback" THEN r.appToken ELSE r.bodyToken
        IN  /\ ~NothingIssued(r) =>
                  /\ r.wrote = "ok"
                  /\ \E d \in patients \cup doctors : d.id = token.userId
            /\ r.wrote = "failed" =>
                  (r.pc = "done" /\ r.status = 500 /\ NothingIssued(r))

\* one login failed on its write and got 500, another one wrote and was
\* issued its cookie
C7_Witness ==
    \E p, q \in Procs :
        /\ procs[p].wrote = "failed"
        /\ procs[p].status = 500
        /\ procs[q].wrote = "ok"
        /\ procs[q].appToken # NoToken

\* the requests that went into newPatient.save(): nobody was found under the
\* SSN hash, so the resolver tried to insert
InsertAttempted(r) ==
    /\ r.pc = "done"
    /\ r.wrote # "no"
    /\ (r.isNewUser \/ r.user = NoUser)

\* two first-time logins for one valid SSN whose find-then-insert steps
\* overlapped, neither of them hit by a database outage
ConcurrentFirstLogins(p, q) ==
    /\ p # q
    /\ InsertAttempted(procs[p])
    /\ InsertAttempted(procs[q])
    /\ procs[p].ssn = procs[q].ssn
    /\ (procs[p].raced \/ procs[q].raced)
    /\ \A x \in {p, q} :
          procs[x].details # "Failed to authenticate user: NetworkError"

AccountsOf(ssn) == FindBySsnHash(patients \cup doctors, hashSSN(ssn))

IssuedToken(r) == IF r.kind = "callback" THEN r.appToken ELSE r.bodyToken

\* C4: two concurrent first-time logins with the same valid national ID,
\* however their find-then-insert steps interleave, leave exactly one
\* persisted account with that ssnHash.
C4_ExactlyOneAccount ==
    \A p, q \in Procs :
        ConcurrentFirstLogins(p, q)
            => Cardinality(AccountsOf(procs[p].ssn)) = 1

\* C5: both of two concurrent first-time logins with the same identity
\* succeed and both get a session credential referencing the one persisted
\* account; the uniqueness violation is never answered as an error.
C5_BothLoginsSucceed ==
    \A p, q \in Procs :
        ConcurrentFirstLogins(p, q) =>
            \A x \in {p, q} :
                /\ procs[x].status \in {200, 302}
                /\ \E d \in AccountsOf(procs[x].ssn) :
                      IssuedToken(procs[x]).userId = d.id

-----------------------------------------------------------------------------
(* Claims about the access gate (checked under SpecGate)                   *)

GateClientType == browserDetails(gate.xclient, gate.ua)

\* the x-csrf-token header is present and equal to the csrf_token cookie
CsrfPresented == Truthy(gate.csrfHeader) /\ gate.csrfHeader = gate.csrfCookie

\* the position of requireCSRF in the chain of the request's route
CsrfIndex ==
    CHOOSE i \in 1..Len(gate.route.chain) : gate.route.chain[i] = "requireCSRF"

\* C3: for a request not classified as native-app, requireCSRF rejects and
\* does not call next unless x-csrf-token is present and equal to the
\* csrf_token cookie: 403 for a missing header, 401 for a non-matching one,
\* and the downstream handler does not run.
C3_CsrfRejectsWithoutNext ==
    (gate.csrfChecked /\ GateClientType # "app" /\ ~CsrfPresented) =>
        /\ gate.pc = "done"
        /\ gate.stage = CsrfIndex
        /\ ~gate.handlerRan
        /\ gate.sent = <<[status |-> IF Truthy(gate.csrfHeader) THEN 401 ELSE 403,
                          body |-> IF Truthy(gate.csrfHeader)
                                   THEN "Wrong CSRF token"
                                   ELSE "Missing CSRF token"]>>

\* C6: every state-mutating request of a web or mobile-browser client that
\* reaches a handler behind the gate has presented an x-csrf-token header
\* equal to its csrf_token cookie.
C6_MutatingBrowserRequestsPassCsrf ==
    (gate.handlerRan /\ StateMutating(gate.route)
        /\ GateClientType \in {"web", "mobile"})
        => CsrfPresented

\* C8: a native-app request is never subject to the CSRF check: requireCSRF
\* answers nothing and passes it on, whatever the x-csrf-token header and
\* the csrf_token cookie hold.
C8_AppExemptFromCsrf ==
    (gate.csrfChecked /\ GateClientType = "app") =>
        /\ gate.stage > CsrfIndex
        /\ \A i \in 1..Len(gate.sent) :
              gate.sent[i].body \notin {"Missing CSRF token", "Wrong CSRF token"}

\* a native-app request without any CSRF header went through requireCSRF and
\* on to its handler
C8_Witness ==
    /\ gate.csrfChecked
    /\ GateClientType = "app"
    /\ gate.csrfHeader = Undefined
    /\ gate.csrfCookie = "c1"
    /\ gate.handlerRan

\* the credential in the transport of the detected client type
SelectedCredential ==
    IF GateClientType = "app"
    THEN (IF gate.auth.scheme = Undefined THEN NoToken ELSE gate.auth.cred)
    ELSE gate.cookieToken

\* C9: the gate takes the credential only from the transport of the detected
\* client type (Authorization header for native-app, session cookie for web
\* and mobile-browser); when that transport carries none, the answer is 401
\* "Not authenticated" and the handler is not reached, even with a valid
\* credential in the other transport.
C9_CredentialFromSelectedTransport ==
    Len(gate.authAt) >= 1 =>
        /\ TokenMissing(SelectedCredential) =>
              /\ gate.pc = "done"
              /\ gate.sent = <<[status |-> 401, body |-> "Not authenticated"]>>
              /\ ~gate.handlerRan
              /\ gate.user = NoClaims
        /\ gate.user # NoClaims =>
              gate.user = [userId |-> SelectedCredential.userId,
                           role |-> SelectedCredential.role]

\* a native-app request without Authorization header but with a valid
\* session cookie was answered 401 "Not authenticated"
C9_Witness ==
    /\ GateClientType = "app"
    /\ gate.auth.scheme = Undefined
    /\ gate.cookieToken = PatientToken
    /\ gate.sent = <<[status |-> 401, body |-> "Not authenticated"]>>
    /\ gate.authAt = <<0>>

\* a credential signed with the server's secret and not yet expired at t
Genuine(token, t) ==
    token.fmt = "jwt" /\ token.key = JWT_SECRET /\ t < token.exp

\* what the gate does with a presented credential that fails verification:
\* the check that finds it so is the last step of the request, answers 401
\* with the given body, attaches no user and keeps the handler from running;
\* a user on the request context always comes from a check that found the
\* credential genuine
FailedVerificationAnswered(body) ==
    LET sel == SelectedCredential
        n == Len(gate.authAt)
    IN  /\ \A i \in 1..n :
              (~TokenMissing(sel) /\ ~Genuine(sel, gate.authAt[i])) =>
                  /\ i = n
                  /\ gate.pc = "done"
                  /\ gate.sent = <<[status |-> 401, body |-> body]>>
                  /\ ~gate.handlerRan
                  /\ (i = 1 => gate.user = NoClaims)
        /\ gate.user # NoClaims =>
              \E i \in 1..n :
                  /\ Genuine(sel, gate.authAt[i])
                  /\ gate.user = [userId |-> sel.userId, role |-> sel.role]

\* C10 as stated: a credential that fails verification is answered 401 with
\* body {authenticated:false}, no user is attached, the handler is never
\* invoked, and a user is attached only from an accepted credential.
C10_AnsweredAuthenticatedFalse == FailedVerificationAnswered("authenticated: false")

\* C10 as amended: a credential that fails verification is answered 401
\* with body {error: "Invalid or expired token"}, no user is attached by
\* that check, the handler is never invoked, and a user is attached only
\* from a credential that verifyAppJWT accepted.
C10_FailedVerificationRejected == FailedVerificationAnswered("Invalid or expired token")

\* GET /me with a session cookie that has expired was answered 401
C10_Witness ==
    /\ gate.route.path = "/api/me"
    /\ GateClientType = "web"
    /\ gate.cookieToken = PatientToken
    /\ gate.authAt = <<TTLSeconds>>
    /\ gate.sent = <<[status |-> 401, body |-> "Invalid or expired token"]>>
    /\ ~gate.handlerRan

-----------------------------------------------------------------------------
(* Role enforcement (checked under SpecGate)                               *)

RoleChecks == {"requireRole:patient", "requireRole:doctor"}

HasRoleCheck ==
    \E i \in 1..Len(gate.route.chain) : gate.route.chain[i] \in RoleChecks

\* the position of requireRole in the chain of the request's route
RoleIndex ==
    CHOOSE i \in 1..Len(gate.route.chain) : gate.route.chain[i] \in RoleChecks

\* the role the route's mount allows
AllowedRole ==
    IF gate.route.chain[RoleIndex] = "requireRole:patient" THEN "patient"
    ELSE "doctor"

\* requireRole has run on the request
RoleChecked ==
    /\ HasRoleCheck
    /\ \/ gate.stage > RoleIndex
       \/ gate.stage = RoleIndex /\ gate.pc = "done"

-----------------------------------------------------------------------------
(* Identity claims (checked under Spec)                                    *)

\* the national ID is a string of exactly twelve decimal digits
TwelveDigits(ssn) ==
    /\ Len(ssn) = 12
    /\ \A i \in 1..12 :
          ssn[i] \in {"0", "1", "2", "3", "4", "5", "6", "7", "8", "9"}

\* findOrCreateUser has been called by the request
ResolverCalled(r) == r.resolver # "no"

\* C12: for a national ID that is absent or not exactly twelve digits,
\* findOrCreateUser fails with "Invalid or missing SSN from IdP" and does no
\* store read or write: the request never finds, saves or inserts.
C12_MalformedSsnNoStoreAccess ==
    \A p \in Procs :
        LET r == procs[p]
        IN  (ResolverCalled(r) /\ ~TwelveDigits(r.ssn)) =>
                /\ r.resolver = "threw"
                /\ r.pc = "done"
                /\ r.details = "Invalid or missing SSN from IdP"
                /\ r.wrote = "no"
                /\ r.user = NoUser
                /\ ~r.isNewUser
                /\ NothingIssued(r)

\* the resolver has thrown on an eleven-digit-and-dash ID and on a missing
\* one
C12_Witness ==
    \E p, q \in Procs :
        /\ procs[p].ssn = SsnDash
        /\ procs[p].resolver = "threw"
        /\ procs[q].ssn = SsnAbsent
        /\ procs[q].resolver = "threw"
        /\ procs[q].kind = "callback"

\* C13: a login attempt (callback or POST /login) whose identity claims
\* carry a missing or malformed national ID is answered with HTTP 400.
C13_MalformedSsnAnswered400 ==
    \A p \in Procs :
        (ResolverCalled(procs[p]) /\ ~TwelveDigits(procs[p].ssn)
            /\ procs[p].pc = "done")
            => procs[p].status = 400

\* the accounts that exist before any login of the behaviour
ExistingAccounts == {PatientAnna, DoctorBerit, DoctorAnna}

\* the resolver returned to request r an account that existed before
ReturnedExisting(r) ==
    /\ r.resolver = "returned"
    /\ \E a \in ExistingAccounts : a.id = r.user.id

\* C14: every call of findOrCreateUser with valid claims of an identity that
\* already has an account returns that account with isNewUser = false and
\* its lastLogin set; the store keeps one account per collection for the
\* hash, no new account appears, and the account's ssnHash, id and role stay
\* as they were.
C14_ResolverIdempotent ==
    \A p \in Procs :
        LET r == procs[p]
            h == <<"hmac-sha256", SSN_HASH_SECRET, r.ssn>>
            all == patients \cup doctors
        IN  ReturnedExisting(r) =>
                /\ ~r.isNewUser
                /\ r.user.ssnHash = h
                /\ \E a \in ExistingAccounts :
                      /\ r.user = [a EXCEPT !.lastLogin = r.loginAt]
                      /\ \E d \in all :
                            /\ [d EXCEPT !.lastLogin = 0] = a
                            /\ \E q \in Procs :
                                  /\ ReturnedExisting(procs[q])
                                  /\ procs[q].user.id = a.id
                                  /\ d.lastLogin = procs[q].loginAt
                /\ Cardinality({d \in patients : d.ssnHash = h}) <= 1
                /\ Cardinality({d \in doctors : d.ssnHash = h}) <= 1
                /\ \A d \in all :
                      d.ssnHash = h => \E a \in ExistingAccounts : a.id = d.id
                /\ \A d1, d2 \in all : d1.id = d2.id => d1 = d2

\* two calls with the same claims, at different times, returned the same
\* account
C14_Witness ==
    \E p, q \in Procs :
        /\ p # q
        /\ ReturnedExisting(procs[p])
        /\ ReturnedExisting(procs[q])
        /\ procs[p].ssn = procs[q].ssn
        /\ procs[p].names = procs[q].names
        /\ procs[p].user.id = procs[q].user.id
        /\ procs[p].loginAt < procs[q].loginAt
        /\ \E d \in patients : d.id = procs[q].user.id /\ d.lastLogin = procs[q].loginAt

\* the role an account had before the behaviour started
InitialRole(id) == (CHOOSE a \in ExistingAccounts : a.id = id).role

\* C15: every account the auth flow creates (every document findOrCreateUser
\* builds and saves, every account it reports as new) has role "patient" and
\* goes to the patient store; the flow creates no doctor account and changes
\* the role of no existing account.
C15_OnlyPatientsCreated ==
    /\ \A d \in patients : d.role = "patient"
    /\ \A d \in doctors :
          \E a \in ExistingAccounts : a.id = d.id /\ a.role = "doctor"
    /\ \A d \in patients \cup doctors :
          (\E a \in ExistingAccounts : a.id = d.id) => d.role = InitialRole(d.id)
    /\ \A p \in Procs :
          LET r == procs[p]
          IN  /\ InsertAttempted(r) =>
                    \A i \in 1..Len(IdPool) :
                        NewPatientDoc(r.ssn, r.names, IdPool[i], r.loginAt).role
                            = "patient"
              /\ r.isNewUser => r.user.role = "patient"

\* one login went into the insert of a new account for a never-seen ID and
\* another one logged an existing doctor in
C15_Witness ==
    \E p, q \in Procs :
        /\ InsertAttempted(procs[p])
        /\ procs[p].ssn = SsnBerit
        /\ procs[q].wrote = "ok"
        /\ procs[q].user.role = "doctor"
        /\ procs[q].user.id \in {d.id : d \in doctors}

\* C16: for an identity whose SSN hash has an account in the doctor store, a
\* login resolves to that doctor account: it is returned with role "doctor"
\* and isNewUser = false, no patient account is created, and the issued
\* credential carries role "doctor".
C16_DoctorIdentityResolvesToDoctor ==
    \A p \in Procs :
        LET r == procs[p]
            h == <<"hmac-sha256", SSN_HASH_SECRET, r.ssn>>
        IN  (r.resolver = "returned" /\ \E d \in doctors : d.ssnHash = h) =>
                /\ \E d \in doctors : d.ssnHash = h /\ d.id = r.user.id
                /\ r.user.role = "doctor"
                /\ ~r.isNewUser
                /\ IssuedToken(r).role = "doctor"
                /\ \A d \in patients :
                      d.ssnHash = h => \E a \in ExistingAccounts : a.id = d.id

\* C17: a callback with matching nonce, a code the broker exchanges, and a
\* never-seen valid national ID creates a new account with role "patient",
\* sets the session and the CSRF cookie, and answers 302 to the frontend
\* with the account-created message.
C17_FirstLoginCreatesAccount ==
    \A p \in Procs :
        LET r == procs[p]
        IN  (r.kind = "callback" /\ r.exchanged /\ TwelveDigits(r.ssn)
                /\ InsertAttempted(r)
                /\ r.details # "Failed to authenticate user: NetworkError"
                /\ ~r.raced) =>
                /\ r.status = 302
                /\ r.isNewUser
                /\ r.message = "Welcome! Account created successfully."
                /\ {"app_token", "csrf_token"} \subseteq r.setCookies
                /\ \E d \in patients :
                      /\ d.id = r.user.id
                      /\ d.role = "patient"
                      /\ d.ssnHash = <<"hmac-sha256", SSN_HASH_SECRET, r.ssn>>

-----------------------------------------------------------------------------
(* The session token codec                                                 *)

\* the times at which a credential may be presented
Times == 0..(MaxTime + TTLSeconds)

\* C18 (under Spec): for every account the resolver returned, the token
\* createAppJWT made of it verifies, at any time before its expiry, to claims
\* with the account's id as userId and the account's role.
C18_IssueVerifyRoundTrip ==
    \A p \in Procs :
        LET r == procs[p]
        IN  r.resolver = "returned" =>
                /\ IssuedToken(r) # NoToken
                /\ IssuedToken(r).exp = IssuedToken(r).iat + TTLSeconds
                /\ \A t \in Times :
                      t < IssuedToken(r).exp =>
                          verifyAppJWT(IssuedToken(r), t)
                              = [userId |-> r.user.id, role |-> r.user.role]

\* a doctor and a patient have been issued their tokens, the later one
\* still before its expiry
C18_Witness ==
    \E p, q \in Procs :
        /\ procs[p].resolver = "returned"
        /\ procs[p].user.role = "doctor"
        /\ procs[q].resolver = "returned"
        /\ procs[q].user.role = "patient"
        /\ procs[p].kind = "setLogin"
        /\ procs[q].kind = "callback"
        /\ now < procs[q].appToken.exp

\* the credentials the request in flight carries
PresentedTokens == {tok \in {gate.cookieToken, gate.auth.cred} : ~TokenMissing(tok)}

\* C19 (under SpecGate): verifyAppJWT answers null, without throwing, for a
\* token at or past its expiry, a token signed with another secret and a
\* malformed token; a token it rejected at the time of a check is rejected
\* now and at every later time.
C19_VerifyRejectsAndStaysRejected ==
    \A tok \in PresentedTokens :
        /\ (tok.fmt # "jwt" \/ tok.key # JWT_SECRET \/ now >= tok.exp) =>
              \A t \in Times : t >= now => verifyAppJWT(tok, t) = NoClaims
        /\ \A i \in 1..Len(gate.authAt) :
              verifyAppJWT(tok, gate.authAt[i]) = NoClaims =>
                  \A t \in Times :
                      t >= gate.authAt[i] => verifyAppJWT(tok, t) = NoClaims

\* the gate has rejected a cookie token signed with another secret, and the
\* genuine token in the request's header has reached its expiry
C19_Witness ==
    /\ gate.cookieToken = ForgedToken
    /\ GateClientType = "web"
    /\ gate.sent = <<[status |-> 401, body |-> "Invalid or expired token"]>>
    /\ gate.auth.cred = PatientToken
    /\ now = PatientToken.exp

-----------------------------------------------------------------------------
(* Login initiation (checked under Spec)                                   *)

\* C20: at login initiation a request classified web is redirected with the
\* cross-device (QR) hint, a mobile-browser one with the same-device hint
\* and a native-app one with the direct method; every such 302 carries a
\* state parameter and sets the oauth_state cookie.
C20_BrokerHintPolicy ==
    \A p \in Procs :
        LET r == procs[p]
        IN  (r.kind = "initiate" /\ r.status = 302) =>
                /\ r.xclient = "web" =>
                      r.acr = "urn:grn:authn:se:bankid:another-device:qr"
                /\ r.xclient = "mobile" =>
                      r.acr = "urn:grn:authn:se:bankid:same-device"
                /\ r.xclient = "app" => r.acr = "urn:grn:authn:se:bankid"
                /\ Truthy(r.oauthState)
                /\ "oauth_state" \in r.setCookies
                /\ r.location = "broker/authorize"

-----------------------------------------------------------------------------
(* Client-type detection (checked under SpecGate)                          *)

\* the user-agents of the requests that name a mobile device, in whatever
\* letter case
MobileUserAgents == {UaIphone, UaAndroidLower}

\* C21: the client type is a total function of the x-client header and the
\* user-agent: a header of "web", "mobile" or "app" is returned verbatim
\* whatever the user-agent; with the header absent or unknown the result is
\* "mobile" when the user-agent names a mobile device and "web" otherwise.
C21_ClientTypeDetection ==
    gate.pc # "idle" =>
        /\ GateClientType \in {"web", "mobile", "app"}
        /\ gate.xclient \in {"web", "mobile", "app"} =>
              GateClientType = gate.xclient
        /\ gate.xclient \notin {"web", "mobile", "app"} =>
              GateClientType =
                  IF gate.ua \in MobileUserAgents THEN "mobile" ELSE "web"
        /\ (gate.csrfChecked /\ Len(gate.sent) = 0 /\ ~CsrfPresented) =>
              gate.xclient = "app"

\* a request with an unknown x-client value and a lower-case "android"
\* user-agent was handled as a browser client: its cookie was read and its
\* missing CSRF token rejected
C21_Witness ==
    /\ gate.xclient = "desktop"
    /\ gate.ua = UaAndroidLower
    /\ GateClientType = "mobile"
    /\ gate.auth.cred = NoToken
    /\ gate.user # NoClaims
    /\ gate.sent = <<[status |-> 403, body |-> "Missing CSRF token"]>>

-----------------------------------------------------------------------------
(* Native-app login, logout (checked under Spec)                           *)

\* C22: POST /login serves only requests declaring client type "app": any
\* other is rejected (400 "Invalid client type" once its bearer token and
\* the configuration passed) and never resolved; a missing, empty or
\* unacceptable bearer token gets 401; on success the answer is 200 with the
\* session credential in the body, and no session cookie, CSRF cookie or
\* CSRF token is ever produced.
C22_NativeAppLogin ==
    \A p \in Procs :
        LET r == procs[p]
        IN  (r.kind = "setLogin" /\ r.pc = "done") =>
                /\ r.setCookies = {}
                /\ r.appToken = NoToken
                /\ r.csrfToken = Undefined
                /\ r.xclient # "app" =>
                      /\ r.status \in {400, 401, 503}
                      /\ ~ResolverCalled(r)
                      /\ r.bodyToken = NoToken
                /\ r.status = 400 <=>
                      (r.xclient # "app" /\ r.errmsg = "Invalid client type")
                /\ r.status = 401 =>
                      (~ResolverCalled(r) /\ r.bodyToken = NoToken)
                /\ r.status = 200 <=> r.resolver = "returned"
                /\ r.status = 200 =>
                      /\ r.xclient = "app"
                      /\ TwelveDigits(r.ssn)
                      /\ r.bodyToken # NoToken
                      /\ r.bodyToken.userId = r.user.id

\* one native-app login succeeded and a login declaring "web" got 400
C22_Witness ==
    \E p, q \in Procs :
        /\ procs[p].kind = "setLogin"
        /\ procs[p].status = 200
        /\ procs[p].bodyToken # NoToken
        /\ procs[q].kind = "setLogin"
        /\ procs[q].xclient = "web"
        /\ procs[q].status = 400

\* a logout has been answered
LoggedOut == \E p \in Procs : procs[p].kind = "logout" /\ procs[p].pc = "done"

\* C23 (under SpecSession): logout answers 200 and clears the session and
\* the CSRF cookie, and changes nothing on the server: a credential that is
\* genuine and unexpired is accepted by requireAuth after the logout just
\* as before.
C23_LogoutRevokesNothing ==
    [][/\ \A p \in Procs :
            (procs[p].kind # "logout" /\ procs'[p].kind = "logout") =>
                /\ procs'[p].status = 200
                /\ procs'[p].pc = "done"
                /\ procs'[p].clearedCookies = {"app_token", "csrf_token"}
                /\ procs'[p].setCookies = {}
                /\ UNCHANGED <<patients, doctors, appConfig, gate>>
       /\ (LoggedOut /\ Current = "requireAuth" /\ gate' # gate
              /\ Genuine(SelectedCredential, now)) =>
                /\ gate'.user = [userId |-> SelectedCredential.userId,
                                 role |-> SelectedCredential.role]
                /\ gate'.sent = gate.sent
                /\ gate'.pc = "run"
                /\ gate'.stage = gate.stage + 1
      ]_vars

\* after a logout, a request carrying the session cookie captured before
\* it went through the gate to its handler
C23_Witness ==
    /\ procs["r1"].kind = "logout"
    /\ procs["r1"].status = 200
    /\ gate.cookieToken = PatientToken
    /\ GateClientType = "web"
    /\ gate.handlerRan
    /\ gate.sent = <<[status |-> 200, body |-> "authenticated: true"]>>

-----------------------------------------------------------------------------
(* The callback's checks (checked under Spec)                              *)

\* the callback got past the state check
PassedStateCheck(r) ==
    /\ CallbackPastConfig(r)
    /\ ~(r.status = 400 /\ r.errmsg = "Invalid state parameter")

\* C24: the state nonce is single-use: once a callback carrying a nonce has
\* passed the state check, another callback presenting the same state value
\* with the same oauth_state cookie value does not pass it.
C24_NonceSingleUse ==
    \A p, q \in Procs :
        (p # q /\ PassedStateCheck(procs[p])
            /\ CallbackPastConfig(procs[q])
            /\ procs[q].reqState = procs[p].reqState
            /\ procs[q].cookieState = procs[p].cookieState)
            => ~PassedStateCheck(procs[q])

\* C25: while the broker configuration is not initialised, login initiation
\* and callback answer 503; the initiation then sets no oauth_state cookie
\* and sends no redirect, the callback exchanges no code and resolves no
\* account, and an answered attempt is not taken up again.
C25_NoConfigAnswers503 ==
    [][\A p \in Procs :
          /\ (procs[p].pc = "idle" /\ appConfig # "ready"
                 /\ procs'[p].kind \in {"initiate", "callback"}) =>
                /\ procs'[p].pc = "done"
                /\ procs'[p].status = 503
                /\ procs'[p].errmsg = "Authentication service not available"
                /\ procs'[p].setCookies = {}
                /\ procs'[p].oauthState = Undefined
                /\ procs'[p].location = Undefined
                /\ ~procs'[p].exchanged
                /\ procs'[p].resolver = "no"
                /\ NothingIssued(procs'[p])
                /\ UNCHANGED <<patients, doctors>>
          /\ (procs[p].pc = "done" /\ procs[p].status = 503) =>
                procs'[p] = procs[p]
      ]_vars

\* with the configuration fetch failed, an initiation and a callback have
\* both been answered 503
C25_Witness ==
    \E p, q \in Procs :
        /\ appConfig = "failed"
        /\ procs[p].kind = "initiate"
        /\ procs[p].status = 503
        /\ procs[q].kind = "callback"
        /\ procs[q].status = 503
        /\ procs[q].code = Undefined

\* neither the exchange nor the resolver ran and nothing was issued
StoppedBeforeExchange(r) ==
    /\ r.pc = "done"
    /\ ~r.exchanged
    /\ r.resolver = "no"
    /\ r.wrote = "no"
    /\ NothingIssued(r)

\* C26: in a callback with a valid nonce a broker-reported error gives 400
\* with the broker's reason, and otherwise an absent code gives 400 "No
\* authorization code received"; the checks run in the order state, error,
\* code, and in both cases no exchange is attempted, no account resolved
\* and no session cookie set.
C26_CallbackErrorAndCodeChecks ==
    \A p \in Procs :
        LET r == procs[p]
            present(x) == x \notin {Undefined, ""}
        IN  CallbackPastConfig(r) =>
                /\ (~NonceMismatch(r) /\ present(r.error)) =>
                      /\ r.status = 400
                      /\ r.errmsg = "Authentication failed"
                      /\ r.details = r.error
                      /\ StoppedBeforeExchange(r)
                /\ (~NonceMismatch(r) /\ ~present(r.error) /\ ~present(r.code)) =>
                      /\ r.status = 400
                      /\ r.errmsg = "No authorization code received"
                      /\ StoppedBeforeExchange(r)
                /\ (NonceMismatch(r) /\ (present(r.error) \/ ~present(r.code))) =>
                      r.errmsg = "Invalid state parameter"
                /\ r.exchanged =>
                      (~NonceMismatch(r) /\ ~present(r.error) /\ present(r.code))

\* a callback with valid nonce, a code and a broker error was answered with
\* the broker's reason, another one without code or error with the
\* missing-code answer
C26_Witness ==
    \E p, q \in Procs :
        /\ procs[p].reqState = "X"
        /\ procs[p].cookieState = "X"
        /\ procs[p].code = "abc"
        /\ procs[p].error = "access_denied"
        /\ procs[p].details = "access_denied"
        /\ procs[p].status = 400
        /\ procs[q].reqState = "X"
        /\ procs[q].cookieState = "X"
        /\ procs[q].code = Undefined
        /\ procs[q].error = Undefined
        /\ procs[q].errmsg = "No authorization code received"

\* C27: an unexpected exception during code exchange, claim decoding,
\* account resolution or credential issuance ends the attempt with 500 and a
\* generic message: the response body carries no internal error detail,
\* and no session or CSRF cookie is set.
C27_Generic500 ==
    \A p \in Procs :
        procs[p].status = 500 =>
            /\ procs[p].pc = "done"
            /\ procs[p].errmsg = "Authentication failed"
            /\ procs[p].details = Undefined
            /\ NothingIssued(procs[p])

-----------------------------------------------------------------------------
(* The pipeline as a whole                                                 *)

\* C28 (under SpecGate): every request through the gate gets exactly one
\* response: once a middleware has sent a rejection, no later middleware or
\* handler runs and no second response is sent.
C28_ExactlyOneResponse ==
    /\ Len(gate.sent) <= 1
    /\ Len(gate.sent) = 1 <=> gate.pc = "done"
    /\ gate.handlerRan => gate.sent[1].status \notin {401, 403}

\* requireCSRF let the request pass although it presented no matching CSRF
\* token: the native-app exemption was taken
ExemptBranchTaken ==
    /\ gate.csrfChecked
    /\ ~CsrfPresented
    /\ \A i \in 1..Len(gate.sent) :
          gate.sent[i].body \notin {"Missing CSRF token", "Wrong CSRF token"}

\* C29 (under SpecGate): requireAuth and requireCSRF classify a request
\* alike, so the CSRF exemption is only taken by requests whose credential
\* was read from the Authorization header; a request authenticated by its
\* session cookie never takes it.
C29_ExemptionOnlyForBearer ==
    ExemptBranchTaken =>
        /\ gate.xclient = "app"
        /\ gate.auth.scheme # Undefined
        /\ Genuine(gate.auth.cred, gate.authAt[1])
        /\ gate.user = [userId |-> gate.auth.cred.userId,
                        role |-> gate.auth.cred.role]

\* a native-app request with its credential in the Authorization header and
\* none in the cookie passed requireCSRF without a CSRF token
C29_Witness ==
    /\ ExemptBranchTaken
    /\ gate.auth = [scheme |-> "Bearer", cred |-> DoctorToken]
    /\ gate.cookieToken = NoToken
    /\ gate.csrfHeader = Undefined
    /\ gate.handlerRan

\* C30 (under Spec): every session credential handleCallback or setLogin
\* issues carries the id of an account in the patient or doctor store whose
\* ssnHash is the hash of the national ID in the presented claims, and that
\* account's role; the "temp-id" placeholder is never issued.
C30_CredentialNamesResolvedAccount ==
    \A p \in Procs :
        LET r == procs[p]
            tok == IssuedToken(r)
        IN  tok # NoToken =>
                /\ tok.userId # "temp-id"
                /\ tok.fmt = "jwt"
                /\ tok.key = JWT_SECRET
                /\ \E d \in patients \cup doctors :
                      /\ d.id = tok.userId
                      /\ d.ssnHash = <<"hmac-sha256", SSN_HASH_SECRET, r.ssn>>
                      /\ d.role = tok.role

\* a callback and a native-app login have each been issued a credential,
\* for a patient and for a doctor
C30_Witness ==
    \E p, q \in Procs :
        /\ procs[p].kind = "callback"
        /\ procs[p].appToken.role = "patient"
        /\ procs[p].appToken.userId = "oid-p1"
        /\ procs[q].kind = "setLogin"
        /\ procs[q].bodyToken.role = "doctor"
        /\ procs[q].bodyToken.userId = "oid-d1"

====
